---- MODULE Spec2Model ----
(***************************************************************************)
(* IGC flight log viewer (sakevn/xcontest): the WaypointGenerator class    *)
(* and the page script main.js that drives it.                             *)
(*                                                                         *)
(* Number representation.  JavaScript numbers are modelled by integers:    *)
(*   - latitude / longitude : microdegrees  (degrees * 10^6)               *)
(*   - distances            : metres        (the code's km * 1000)         *)
(*   - bearings, course     : centidegrees  (degrees * 100)                *)
(*   - importance           : fiftieths     (the code's value * 50)        *)
(*   - altitude             : metres, as in the code                       *)
(* A fix object is referred to by its 1-based position in flightData.fixes *)
(* (the fixes of one flight are distinct objects, so position = identity). *)
(***************************************************************************)
EXTENDS Integers, Sequences, FiniteSets, TLC

VARIABLES
    currentFlightData,    \* main.js: let currentFlightData
    waypointGenerator,    \* the WaypointGenerator object's fields
    optimizationLevel,    \* value of the #optimizationLevel select
    showWaypointsSwitch,  \* checked state of #showWaypointsSwitch
    formatGPX,            \* checked state of the #formatGPX radio
    waypointStatistics,   \* content of #waypointStatistics
    qrCodeContainer,      \* content of #qrCodeContainer
    lastCall,             \* arguments and result of the latest generateWaypoints call
    probe,                \* argument/result of a direct getTargetWaypointCount call
    flightDisplay,        \* the FlightDisplay object: path, markers, info panel
    altitudeChart,        \* what the AltitudeDisplay chart element shows
    lastLoadedIgcContent, \* main.js: let lastLoadedIgcContent
    loadingIndicator,     \* TRUE while #loadingIndicator is visible (no d-none class)
    loads,                \* the load attempts (file reads, fetches) in request order
    clock,                \* milliseconds since the page was set up
    timers,               \* the browser's pending setTimeout timers
    timeout,              \* debounce closure: let timeout (0 while undefined)
    resizeEvents,         \* clock of every resize event so far
    resizeRuns            \* every run of the resize handler so far

\* What a load shows, and the debounce timer with its history.
displayVars == <<flightDisplay, altitudeChart, lastLoadedIgcContent, loadingIndicator>>
timerVars == <<clock, timers, timeout, resizeEvents, resizeRuns>>

vars == <<currentFlightData, waypointGenerator, optimizationLevel,
          showWaypointsSwitch, formatGPX, waypointStatistics,
          qrCodeContainer, lastCall, probe, displayVars, loads, timerVars>>

-----------------------------------------------------------------------------
(* Bounds of the model *)

\* Longest flight whose fixes are enumerated freely.
MaxFixes == 4
\* Longest back-and-forth flight (two alternating fixes).
MaxZigZag == 15

Levels == {"low", "medium", "high"}

-----------------------------------------------------------------------------
(* Fixes and flights *)

\* <<latitude, longitude>> of the places a fix can be at, in microdegrees.
PosA == <<0, 0>>
PosB == <<0, 50000>>
PosC == <<50000, 50000>>
PosD == <<80000, 90000>>
Positions == {PosA, PosB, PosC, PosD}

\* A further place, south-west of the others, for the geodesy functions alone.
PosE == <<-30000, 20000>>
GeoPositions == Positions \cup {PosE}

\* Pressure altitudes a fix can have, in metres.
Altitudes == {1000, 1150}

\* A B-record without its time: place and altitude.
Samples == Positions \X Altitudes

\* The fix decoded from the i-th B-record: records are one second apart,
\* so the time of a fix is its position in the log.
Fix(sample, i) ==
    [time |-> i,
     latitude |-> sample[1][1],
     longitude |-> sample[1][2],
     pressureAltitude |-> sample[2]]

FlightOf(samples) ==
    [fixes |-> [i \in 1..Len(samples) |-> Fix(samples[i], i)]]

RECURSIVE SeqsUpTo(_, _)
SeqsUpTo(S, n) ==
    IF n = 0 THEN {<<>>}
    ELSE LET shorter == SeqsUpTo(S, n - 1)
         IN  shorter \cup {Append(s, x) : s \in {t \in shorter : Len(t) = n - 1}, x \in S}

\* Every flight of at most MaxFixes fixes.
ShortFlights == {FlightOf(s) : s \in SeqsUpTo(Samples, MaxFixes)}

\* Flights that go back and forth between two samples.
ZigZag(s1, s2, n) == FlightOf([i \in 1..n |-> IF i % 2 = 1 THEN s1 ELSE s2])
ZigZagFlights ==
    {ZigZag(s1, s2, n) : s1 \in Samples, s2 \in Samples, n \in (MaxFixes + 1)..MaxZigZag}

\* Flights round the circuit A, C, D, B, A: a nearly straight leg through C
\* (course change 8 degrees), a 153 degree turn at D and a 63 degree turn at
\* B, 28.9 km in all, with every profile of altitudes that differ by
\* exactly 100 m, by 150 m and by 250 m.
CircuitAltitudes == {1000, 1100, 1250}
CircuitFlights ==
    {FlightOf([i \in 1..5 |-> <<(<<PosA, PosC, PosD, PosB, PosA>>)[i], alts[i]>>]) :
        alts \in [1..5 -> CircuitAltitudes]}

AllFlights == ShortFlights \cup ZigZagFlights \cup CircuitFlights

\* main.js: currentFlightData = null (no log processed yet).
NoFlight == [null |-> TRUE]

-----------------------------------------------------------------------------
(* Geodesy: calculateHaversineDistance, calculateBearing,                  *)
(* calculateCourseChange.  The trigonometric formulas are tabulated on     *)
(* Positions: each entry is the value the code's formula gives for the     *)
(* two places, rounded to the metre / centidegree.                         *)

HaversineMetres(p, q) ==
    IF p = q THEN 0
    ELSE CASE {p, q} = {PosA, PosB} -> 5560
           [] {p, q} = {PosA, PosC} -> 7863
           [] {p, q} = {PosA, PosD} -> 13390
           [] {p, q} = {PosA, PosE} -> 4009
           [] {p, q} = {PosB, PosC} -> 5560
           [] {p, q} = {PosB, PosD} -> 9946
           [] {p, q} = {PosB, PosE} -> 4718
           [] {p, q} = {PosC, PosD} -> 5560
           [] {p, q} = {PosC, PosE} -> 9500
           [] {p, q} = {PosD, PosE} -> 14498

calculateHaversineDistance(lat1, lon1, lat2, lon2) ==
    HaversineMetres(<<lat1, lon1>>, <<lat2, lon2>>)

\* Math.atan2(y, x) in degrees, a value in (-180, 180], in centidegrees;
\* atan2(0, 0) = 0: the bearing to the same place is 0.
BearingCentiDeg(p, q) ==
    IF p = q THEN 0
    ELSE CASE <<p, q>> = <<PosA, PosB>> -> 9000
           [] <<p, q>> = <<PosA, PosC>> -> 4500
           [] <<p, q>> = <<PosA, PosD>> -> 4837
           [] <<p, q>> = <<PosA, PosE>> -> 14631
           [] <<p, q>> = <<PosB, PosA>> -> -9000
           [] <<p, q>> = <<PosB, PosC>> -> 0
           [] <<p, q>> = <<PosB, PosD>> -> 2657
           [] <<p, q>> = <<PosB, PosE>> -> -13500
           [] <<p, q>> = <<PosC, PosA>> -> -13500
           [] <<p, q>> = <<PosC, PosB>> -> 18000
           [] <<p, q>> = <<PosC, PosD>> -> 5313
           [] <<p, q>> = <<PosC, PosE>> -> -15944
           [] <<p, q>> = <<PosD, PosA>> -> -13163
           [] <<p, q>> = <<PosD, PosB>> -> -15343
           [] <<p, q>> = <<PosD, PosC>> -> -12687
           [] <<p, q>> = <<PosD, PosE>> -> -14753
           [] <<p, q>> = <<PosE, PosA>> -> -3369
           [] <<p, q>> = <<PosE, PosB>> -> 4500
           [] <<p, q>> = <<PosE, PosC>> -> 2056
           [] <<p, q>> = <<PosE, PosD>> -> 3247

\* bearing = (bearing + 360) % 360
calculateBearing(lat1, lon1, lat2, lon2) ==
    (BearingCentiDeg(<<lat1, lon1>>, <<lat2, lon2>>) + 36000) % 36000

Abs(x) == IF x < 0 THEN -x ELSE x

\* Mutant: the difference returned without folding it into 0..180.
calculateCourseChange_NotFolded(lat1, lon1, lat2, lon2, lat3, lon3) ==
    LET bearing1 == calculateBearing(lat1, lon1, lat2, lon2)
        bearing2 == calculateBearing(lat2, lon2, lat3, lon3)
    IN  Abs(bearing1 - bearing2)

calculateCourseChange(lat1, lon1, lat2, lon2, lat3, lon3) ==
    LET bearing1 == calculateBearing(lat1, lon1, lat2, lon2)
        bearing2 == calculateBearing(lat2, lon2, lat3, lon3)
        diff == Abs(bearing1 - bearing2)
    IN  IF diff > 18000 THEN 36000 - diff ELSE diff

RECURSIVE SumDistance(_, _)
SumDistance(fixes, i) ==
    IF i < 2 THEN 0
    ELSE SumDistance(fixes, i - 1)
         + calculateHaversineDistance(fixes[i-1].latitude, fixes[i-1].longitude,
                                      fixes[i].latitude, fixes[i].longitude)

calculateTotalDistance(fixes) ==
    IF Len(fixes) < 2 THEN 0 ELSE SumDistance(fixes, Len(fixes))

-----------------------------------------------------------------------------
(* WaypointGenerator.getTargetWaypointCount (distance in metres) *)

MAX_WAYPOINTS == 15

Min(a, b) == IF a < b THEN a ELSE b
Max(a, b) == IF a > b THEN a ELSE b

\* Math.ceil(distance / perKm) for a distance in metres and perKm in km.
CeilPerKm(distance, perKm) == (distance + perKm * 1000 - 1) \div (perKm * 1000)

baseCount(distance, level) ==
    CASE level = "low"    -> Min(12, CeilPerKm(distance, 15))
      [] level = "medium" -> Min(8, CeilPerKm(distance, 25))
      [] level = "high"   -> Min(5, CeilPerKm(distance, 40))
      [] OTHER            -> Min(8, CeilPerKm(distance, 25))

\* Mutant: the short flights' count without its floor of 2.
finalCount_ShortNotFloored(distance, level) ==
    IF distance <= 20 * 1000
    THEN baseCount(distance, level)
    ELSE IF distance <= 100 * 1000
    THEN Max(3, Min(MAX_WAYPOINTS - 2, baseCount(distance, level) + 1))
    ELSE IF distance <= 300 * 1000
    THEN Max(4, Min(MAX_WAYPOINTS - 2, baseCount(distance, level) + 2))
    ELSE Max(5, Min(MAX_WAYPOINTS - 2, baseCount(distance, level) + 3))

\* Mutant: the bracket bounds taken as exclusive.
finalCount_ExclusiveBrackets(distance, level) ==
    IF distance < 20 * 1000
    THEN Max(2, baseCount(distance, level))
    ELSE IF distance < 100 * 1000
    THEN Max(3, Min(MAX_WAYPOINTS - 2, baseCount(distance, level) + 1))
    ELSE IF distance < 300 * 1000
    THEN Max(4, Min(MAX_WAYPOINTS - 2, baseCount(distance, level) + 2))
    ELSE Max(5, Min(MAX_WAYPOINTS - 2, baseCount(distance, level) + 3))

\* Mutant: the floors of the shortest and the longest bracket swapped.
finalCount_FloorsSwapped(distance, level) ==
    IF distance <= 20 * 1000
    THEN Max(5, baseCount(distance, level))
    ELSE IF distance <= 100 * 1000
    THEN Max(3, Min(MAX_WAYPOINTS - 2, baseCount(distance, level) + 1))
    ELSE IF distance <= 300 * 1000
    THEN Max(4, Min(MAX_WAYPOINTS - 2, baseCount(distance, level) + 2))
    ELSE Max(2, Min(MAX_WAYPOINTS - 2, baseCount(distance, level) + 3))

finalCount(distance, level) ==
    IF distance <= 20 * 1000
    THEN Max(2, baseCount(distance, level))
    ELSE IF distance <= 100 * 1000
    THEN Max(3, Min(MAX_WAYPOINTS - 2, baseCount(distance, level) + 1))
    ELSE IF distance <= 300 * 1000
    THEN Max(4, Min(MAX_WAYPOINTS - 2, baseCount(distance, level) + 2))
    ELSE Max(5, Min(MAX_WAYPOINTS - 2, baseCount(distance, level) + 3))

getTargetWaypointCount(distance, level) ==
    Min(MAX_WAYPOINTS - 2, finalCount(distance, level))

-----------------------------------------------------------------------------
(* WaypointGenerator.generateWaypoints *)

\* The waypoint object pushed for a fix.
Waypoint(name, fix) ==
    [name |-> name,
     lat |-> fix.latitude,
     lng |-> fix.longitude,
     altitude |-> fix.pressureAltitude,
     time |-> fix.time]

\* Step 1: the references (positions in fixes) of the sampled fixes.
sampleRate(fixes) == Max(1, Len(fixes) \div 200)

\* for (i = ...; i < fixes.length; i += sampleRate) push(fixes[i]): the
\* loop variable takes the values i, i + rate, ... below the length, one
\* push each (i is the 1-based position of the first).
SampleFrom(fixes, i, rate) ==
    IF i > Len(fixes) THEN <<>>
    ELSE [j \in 1..((Len(fixes) - i) \div rate + 1) |-> i + (j - 1) * rate]

\* Mutant: the last fix not appended when the stride misses it.
sampledFixes_StrideOnly(fixes) == SampleFrom(fixes, 1, sampleRate(fixes))

sampledFixes(fixes) ==
    LET strided == SampleFrom(fixes, 1, sampleRate(fixes))
    IN  IF strided[Len(strided)] # Len(fixes)
        THEN Append(strided, Len(fixes))
        ELSE strided

\* Mutant: the threshold of level high left at that of level medium.
turnThreshold_HighAsMedium(level) ==
    IF level = "low" THEN 3000 ELSE 4500

turnThreshold(level) ==
    IF level = "low" THEN 3000 ELSE (IF level = "medium" THEN 4500 ELSE 6000)

\* Mutant: a change of exactly 100 m counted as significant.
significantAltitudeChange_From100(altChangePrev, altChangeNext) ==
    altChangePrev >= 100 /\ altChangeNext >= 100

\* Mutant: an altitude change on one side is enough.
significantAltitudeChange_EitherSide(altChangePrev, altChangeNext) ==
    altChangePrev > 100 \/ altChangeNext > 100

\* The 100 m altitude change threshold, on both sides of the point.
significantAltitudeChange(altChangePrev, altChangeNext) ==
    altChangePrev > 100 /\ altChangeNext > 100

\* Mutant: the altitude test made the else branch of the turn test.
candidatesAt_ElseIf(fixes, sampled, i, level) ==
    LET prevFix == fixes[sampled[i-1]]
        currentFix == fixes[sampled[i]]
        nextFix == fixes[sampled[i+1]]
        distToPrev == calculateHaversineDistance(
                          prevFix.latitude, prevFix.longitude,
                          currentFix.latitude, currentFix.longitude)
        courseChange == calculateCourseChange(
                          prevFix.latitude, prevFix.longitude,
                          currentFix.latitude, currentFix.longitude,
                          nextFix.latitude, nextFix.longitude)
        altChangePrev == Abs(currentFix.pressureAltitude - prevFix.pressureAltitude)
        altChangeNext == Abs(nextFix.pressureAltitude - currentFix.pressureAltitude)
    IN  IF distToPrev < 100 THEN <<>>
        ELSE IF courseChange > turnThreshold(level)
        THEN <<[fix |-> sampled[i], importance |-> courseChange, type |-> "turn"]>>
        ELSE IF significantAltitudeChange(altChangePrev, altChangeNext)
        THEN <<[fix |-> sampled[i],
                importance |-> altChangePrev + altChangeNext,
                type |-> "altitude"]>>
        ELSE <<>>

\* Step 2, one pass of the loop body: the candidates pushed for sampled[i].
candidatesAt(fixes, sampled, i, level) ==
    LET prevFix == fixes[sampled[i-1]]
        currentFix == fixes[sampled[i]]
        nextFix == fixes[sampled[i+1]]
        distToPrev == calculateHaversineDistance(
                          prevFix.latitude, prevFix.longitude,
                          currentFix.latitude, currentFix.longitude)
        courseChange == calculateCourseChange(
                          prevFix.latitude, prevFix.longitude,
                          currentFix.latitude, currentFix.longitude,
                          nextFix.latitude, nextFix.longitude)
        altChangePrev == Abs(currentFix.pressureAltitude - prevFix.pressureAltitude)
        altChangeNext == Abs(nextFix.pressureAltitude - currentFix.pressureAltitude)
        turn == IF courseChange > turnThreshold(level)
                THEN <<[fix |-> sampled[i], importance |-> courseChange, type |-> "turn"]>>
                ELSE <<>>
        alt == IF significantAltitudeChange(altChangePrev, altChangeNext)
               THEN <<[fix |-> sampled[i],
                       importance |-> altChangePrev + altChangeNext,
                       type |-> "altitude"]>>
               ELSE <<>>
    IN  IF distToPrev < 100 THEN <<>> ELSE turn \o alt

RECURSIVE ScanFrom(_, _, _, _)
ScanFrom(fixes, sampled, i, level) ==
    IF i > Len(sampled) - 1 THEN <<>>
    ELSE candidatesAt(fixes, sampled, i, level) \o ScanFrom(fixes, sampled, i + 1, level)

possibleWaypoints(fixes, level) ==
    ScanFrom(fixes, sampledFixes(fixes), 2, level)

\* Array.prototype.sort is stable: an element goes after every element the
\* comparator does not put behind it.
\* Mutant: ascending instead of descending.
byImportance_Ascending(a, b) == a.importance - b.importance

byImportance(a, b) == b.importance - a.importance

RECURSIVE InsertByImportance(_, _)
InsertByImportance(sorted, x) ==
    IF sorted = <<>> THEN <<x>>
    ELSE IF byImportance(Head(sorted), x) <= 0
         THEN <<Head(sorted)>> \o InsertByImportance(Tail(sorted), x)
         ELSE <<x>> \o sorted

RECURSIVE SortByImportance(_)
SortByImportance(s) ==
    IF s = <<>> THEN <<>>
    ELSE InsertByImportance(SortByImportance(SubSeq(s, 1, Len(s) - 1)), s[Len(s)])

\* Mutant: the sampled fixes are copies, which indexOf does not find.
indexOf_NotFound(fixes, fix) == 0

\* fixes.indexOf(fix): the position of the fix object in the flight's fixes.
indexOf(fixes, fix) ==
    IF fix \in 1..Len(fixes) THEN fix ELSE 0

byPathPosition(fixes, a, b) == indexOf(fixes, a.fix) - indexOf(fixes, b.fix)

RECURSIVE InsertByPathPosition(_, _, _)
InsertByPathPosition(fixes, sorted, x) ==
    IF sorted = <<>> THEN <<x>>
    ELSE IF byPathPosition(fixes, Head(sorted), x) <= 0
         THEN <<Head(sorted)>> \o InsertByPathPosition(fixes, Tail(sorted), x)
         ELSE <<x>> \o sorted

RECURSIVE SortByPathPosition(_, _)
SortByPathPosition(fixes, s) ==
    IF s = <<>> THEN <<>>
    ELSE InsertByPathPosition(fixes,
             SortByPathPosition(fixes, SubSeq(s, 1, Len(s) - 1)), s[Len(s)])

\* Mutant: every candidate is kept.
slice_NoLimit(s, n) == s

\* Step 4: possibleWaypoints.slice(0, maxWaypoints) after the sort of step 3.
slice(s, n) == SubSeq(s, 1, Min(n, Len(s)))

selectedWaypoints(fixes, level, maxWaypoints) ==
    SortByPathPosition(fixes,
        slice(SortByImportance(possibleWaypoints(fixes, level)), maxWaypoints))

\* Mutant: the waypoint named after forEach's index argument.
PushSelected_NamedByIndex(fixes, waypoints, selected) ==
    waypoints \o
        [k \in 1..Len(selected) |->
            Waypoint((IF selected[k].type = "turn" THEN "TURN" ELSE "WP")
                         \o ToString(k - 1),
                     fixes[selected[k].fix])]

\* selectedWaypoints.forEach: each push names the waypoint after the length
\* of this.waypoints at that moment.
RECURSIVE PushSelected(_, _, _)
PushSelected(fixes, waypoints, selected) ==
    IF selected = <<>> THEN waypoints
    ELSE LET waypoint == Head(selected)
             namePrefix == IF waypoint.type = "turn" THEN "TURN" ELSE "WP"
         IN  PushSelected(fixes,
                 Append(waypoints,
                        Waypoint(namePrefix \o ToString(Len(waypoints)), fixes[waypoint.fix])),
                 Tail(selected))

\* Mutant: the landing point read from the first fix.
builtWaypoints_LandingIsFirstFix(fixes, level) ==
    LET maxWaypoints == getTargetWaypointCount(calculateTotalDistance(fixes), level)
        takeoff == fixes[1]
        landing == fixes[1]
        start == <<Waypoint("TAKEOFF", takeoff)>>
    IN  IF maxWaypoints <= 0
        THEN Append(start, Waypoint("LANDING", landing))
        ELSE Append(PushSelected(fixes, start,
                                 selectedWaypoints(fixes, level, maxWaypoints)),
                    Waypoint("LANDING", landing))

\* The list generateWaypoints builds in this.waypoints for a flight with fixes.
builtWaypoints(fixes, level) ==
    LET maxWaypoints == getTargetWaypointCount(calculateTotalDistance(fixes), level)
        takeoff == fixes[1]
        landing == fixes[Len(fixes)]
        start == <<Waypoint("TAKEOFF", takeoff)>>
    IN  IF maxWaypoints <= 0
        THEN Append(start, Waypoint("LANDING", landing))
        ELSE Append(PushSelected(fixes, start,
                                 selectedWaypoints(fixes, level, maxWaypoints)),
                    Waypoint("LANDING", landing))

\* Mutant: the level recorded before the check for an empty flight.
generateWaypoints_LevelSetFirst(gen, flightData, level) ==
    IF flightData = NoFlight \/ Len(flightData.fixes) = 0
    THEN [ret |-> <<>>, gen |-> [gen EXCEPT !.currentOptimizationLevel = level]]
    ELSE LET built == builtWaypoints(flightData.fixes, level)
         IN  [ret |-> built,
              gen |-> [gen EXCEPT
                         !.currentOptimizationLevel = level,
                         !.flightDistance = calculateTotalDistance(flightData.fixes),
                         !.waypoints = built]]

\* generateWaypoints(flightData, level) on generator object gen:
\* the value returned and the generator's fields afterwards.
generateWaypoints(gen, flightData, level) ==
    IF flightData = NoFlight \/ Len(flightData.fixes) = 0
    THEN [ret |-> <<>>, gen |-> gen]
    ELSE LET built == builtWaypoints(flightData.fixes, level)
         IN  [ret |-> built,
              gen |-> [gen EXCEPT
                         !.currentOptimizationLevel = level,
                         !.flightDistance = calculateTotalDistance(flightData.fixes),
                         !.waypoints = built]]

\* new WaypointGenerator('map')
NewWaypointGenerator ==
    [waypoints |-> <<>>,
     waypointMarkers |-> <<>>,
     map |-> "null",
     flightDistance |-> 0,
     currentOptimizationLevel |-> "medium"]

-----------------------------------------------------------------------------
(* Export texts: generateGPX, generateCSV, generateCompactCSV *)

RECURSIVE ZeroPad(_, _)
ZeroPad(digits, width) ==
    IF Len(digits) >= width THEN digits ELSE ZeroPad("0" \o digits, width)

RECURSIVE Pow10(_)
Pow10(n) == IF n = 0 THEN 1 ELSE 10 * Pow10(n - 1)

\* Number.prototype.toFixed(decimals) of a coordinate held in microdegrees:
\* the magnitude rounded to the nearest multiple of 10^-decimals (a tie
\* goes up), behind a "-" when the number is negative.
toFixed(microdeg, decimals) ==
    LET unit == Pow10(6 - decimals)
        scaled == (Abs(microdeg) + unit \div 2) \div unit
        whole == scaled \div Pow10(decimals)
        frac == scaled % Pow10(decimals)
    IN  (IF microdeg < 0 THEN "-" ELSE "")
        \o ToString(whole) \o "." \o ZeroPad(ToString(frac), decimals)

\* new Date().toISOString(): a 24-character time stamp.
IsoTimeStamp == "2024-01-01T00:00:00.000Z"

RECURSIVE GpxWpts(_)
GpxWpts(waypoints) ==
    IF waypoints = <<>> THEN ""
    ELSE LET waypoint == Head(waypoints)
         IN  "  <wpt lat=\"" \o toFixed(waypoint.lat, 6)
                 \o "\" lon=\"" \o toFixed(waypoint.lng, 6) \o "\">\n"
             \o "    <ele>" \o ToString(waypoint.altitude) \o "</ele>\n"
             \o "    <name>" \o waypoint.name \o "</name>\n"
             \o "  </wpt>\n"
             \o GpxWpts(Tail(waypoints))

RECURSIVE GpxTrkpts(_)
GpxTrkpts(waypoints) ==
    IF waypoints = <<>> THEN ""
    ELSE LET waypoint == Head(waypoints)
         IN  "      <trkpt lat=\"" \o toFixed(waypoint.lat, 6)
                 \o "\" lon=\"" \o toFixed(waypoint.lng, 6) \o "\">\n"
             \o "        <ele>" \o ToString(waypoint.altitude) \o "</ele>\n"
             \o "      </trkpt>\n"
             \o GpxTrkpts(Tail(waypoints))

\* "null" stands for the JavaScript null the generators return without waypoints.
generateGPX(gen) ==
    IF Len(gen.waypoints) = 0 THEN "null"
    ELSE "<?xml version=\"1.0\" encoding=\"UTF-8\"?>\n"
         \o "<gpx version=\"1.1\" creator=\"IGC Flight Log Viewer\" xmlns=\"http://www.topografix.com/GPX/1/1\">\n"
         \o "  <metadata>\n"
         \o "    <name>Optimized Flight Waypoints (" \o gen.currentOptimizationLevel \o ")</name>\n"
         \o "    <time>" \o IsoTimeStamp \o "</time>\n"
         \o "  </metadata>\n"
         \o GpxWpts(gen.waypoints)
         \o "  <trk>\n"
         \o "    <name>Optimized Flight Path (" \o gen.currentOptimizationLevel \o ")</name>\n"
         \o "    <trkseg>\n"
         \o GpxTrkpts(gen.waypoints)
         \o "    </trkseg>\n"
         \o "  </trk>\n"
         \o "</gpx>"

\* Mutant: the longitude written before the latitude.
RECURSIVE CsvRows_LongitudeFirst(_)
CsvRows_LongitudeFirst(waypoints) ==
    IF waypoints = <<>> THEN ""
    ELSE LET waypoint == Head(waypoints)
         IN  waypoint.name \o "," \o toFixed(waypoint.lng, 6)
                 \o "," \o toFixed(waypoint.lat, 6)
                 \o "," \o ToString(waypoint.altitude) \o "\n"
             \o CsvRows_LongitudeFirst(Tail(waypoints))

RECURSIVE CsvRows(_)
CsvRows(waypoints) ==
    IF waypoints = <<>> THEN ""
    ELSE LET waypoint == Head(waypoints)
         IN  waypoint.name \o "," \o toFixed(waypoint.lat, 6)
                 \o "," \o toFixed(waypoint.lng, 6)
                 \o "," \o ToString(waypoint.altitude) \o "\n"
             \o CsvRows(Tail(waypoints))

generateCSV(gen) ==
    IF Len(gen.waypoints) = 0 THEN "null"
    ELSE "name,latitude,longitude,altitude\n" \o CsvRows(gen.waypoints)

\* Mutant: the altitude kept in the compact rows.
RECURSIVE CompactRows_WithAltitude(_)
CompactRows_WithAltitude(waypoints) ==
    IF waypoints = <<>> THEN ""
    ELSE LET waypoint == Head(waypoints)
         IN  waypoint.name \o "," \o toFixed(waypoint.lat, 5)
                 \o "," \o toFixed(waypoint.lng, 5)
                 \o "," \o ToString(waypoint.altitude) \o "\n"
             \o CompactRows_WithAltitude(Tail(waypoints))

RECURSIVE CompactRows(_)
CompactRows(waypoints) ==
    IF waypoints = <<>> THEN ""
    ELSE LET waypoint == Head(waypoints)
         IN  waypoint.name \o "," \o toFixed(waypoint.lat, 5)
                 \o "," \o toFixed(waypoint.lng, 5) \o "\n"
             \o CompactRows(Tail(waypoints))

generateCompactCSV(gen) ==
    IF Len(gen.waypoints) = 0 THEN "null"
    ELSE CompactRows(gen.waypoints)

-----------------------------------------------------------------------------
(* WaypointGenerator.generateQRCode: the content of the QR element after   *)
(* the call.  A canvas holds the text handed to QRCode.toCanvas.           *)

QR_LIMIT == 1500

QrMessage(text) == [kind |-> "message", text |-> text]
QrCanvas(data) == [kind |-> "canvas", data |-> data]

primaryData(gen, format) ==
    IF format = "gpx" THEN generateGPX(gen) ELSE generateCSV(gen)

\* Mutant: the second length check made on the primary text again.
generateQRCode_SecondCheckOnPrimary(gen, format) ==
    LET data == primaryData(gen, format)
    IN  IF data = "null"
        THEN QrMessage("No waypoint data available")
        ELSE IF Len(data) > QR_LIMIT
        THEN LET compact == generateCompactCSV(gen)
             IN  IF Len(data) > QR_LIMIT
                 THEN QrMessage("Too many waypoints for QR code")
                 ELSE QrCanvas(compact)
        ELSE QrCanvas(data)

\* Mutant: the compact text is encoded whatever its length.
generateQRCode_NoSecondCheck(gen, format) ==
    LET data == primaryData(gen, format)
    IN  IF data = "null"
        THEN QrMessage("No waypoint data available")
        ELSE IF Len(data) > QR_LIMIT
        THEN QrCanvas(generateCompactCSV(gen))
        ELSE QrCanvas(data)

generateQRCode(gen, format) ==
    LET data == primaryData(gen, format)
    IN  IF data = "null"
        THEN QrMessage("No waypoint data available")
        ELSE IF Len(data) > QR_LIMIT
        THEN LET compact == generateCompactCSV(gen)
             IN  IF Len(compact) > QR_LIMIT
                 THEN QrMessage("Too many waypoints for QR code")
                 ELSE QrCanvas(compact)
        ELSE QrCanvas(data)

-----------------------------------------------------------------------------
(* WaypointGenerator.displayWaypoints / clearWaypoints *)

clearWaypoints(gen) ==
    IF gen.map # "null" THEN [gen EXCEPT !.waypointMarkers = <<>>] ELSE gen

markersOf(waypoints) ==
    [i \in 1..Len(waypoints) |->
        [title |-> waypoints[i].name, lat |-> waypoints[i].lat, lng |-> waypoints[i].lng]]

displayWaypoints(gen, map) ==
    LET cleared == clearWaypoints([gen EXCEPT !.map = map])
        markers == markersOf(cleared.waypoints)
    IN  [cleared EXCEPT !.waypointMarkers =
            IF Len(cleared.waypoints) > 1
            THEN Append(markers, [title |-> "waypointPath", lat |-> 0, lng |-> 0])
            ELSE markers]

-----------------------------------------------------------------------------
(* FlightDisplay and AltitudeDisplay *)

\* A Leaflet layer or chart that does not exist (null).
NoLayer == [null |-> TRUE]

\* FlightDisplay constructor: nothing on the map, the info panel as served.
NewFlightDisplay ==
    [flightPath |-> NoLayer,
     markers |-> [start |-> NoLayer, end |-> NoLayer],
     info |-> [kind |-> "initial"]]

clearFlight(display) ==
    [display EXCEPT !.flightPath = NoLayer,
                    !.markers = [start |-> NoLayer, end |-> NoLayer]]

\* displayFlightInfo(flightData): the panel is filled from this flight's
\* header and statistics.
displayFlightInfo(display, flightData) ==
    [display EXCEPT !.info = [kind |-> "table", of |-> flightData]]

coordinatesOf(flightData) ==
    [i \in 1..Len(flightData.fixes) |->
        <<flightData.fixes[i].latitude, flightData.fixes[i].longitude>>]

displayFlight(display, flightData) ==
    IF Len(flightData.fixes) = 0
    THEN display
    ELSE LET coordinates == coordinatesOf(flightData)
             drawn == [clearFlight(display) EXCEPT
                          !.flightPath = [polyline |-> coordinates],
                          !.markers = [start |-> [title |-> "Takeoff",
                                                  at |-> coordinates[1]],
                                       end |-> [title |-> "Landing",
                                                at |-> coordinates[Len(coordinates)]]]]
         IN  displayFlightInfo(drawn, flightData)

\* AltitudeDisplay.render(flightData): the chart is redrawn from the fixes.
render(chart, flightData) ==
    IF Len(flightData.fixes) = 0
    THEN chart
    ELSE [plotted |-> flightData.fixes]

-----------------------------------------------------------------------------
(* main.js *)

\* The log texts a user can load, and IGCParser.parse on them.
IgcContents == {"empty.igc", "dogleg.igc", "triangle.igc"}

parse(igcContent) ==
    CASE igcContent = "empty.igc" -> FlightOf(<<>>)
      [] igcContent = "dogleg.igc" ->
            FlightOf(<< <<PosB, 1000>>, <<PosC, 1000>>, <<PosD, 1000>> >>)
      [] igcContent = "triangle.igc" ->
            FlightOf(<< <<PosA, 1000>>, <<PosB, 1150>>, <<PosC, 1000>>, <<PosA, 1150>> >>)

\* updateWaypointStatistics(waypoints): the new content of #waypointStatistics.
\* flightDistance.toFixed(1) is held in tenths of a km.
updateWaypointStatistics(waypoints, level, gen) ==
    IF Len(waypoints) = 0
    THEN [kind |-> "noWaypoints"]
    ELSE [kind |-> "table",
          optimization |-> level,
          flightDistance |-> (gen.flightDistance + 50) \div 100,
          waypoints |-> Len(waypoints),
          start |-> waypoints[1].name,
          end |-> waypoints[Len(waypoints)].name]

\* The generate button's click handler, run with a flight loaded: the
\* generator, the statistics panel and the call record afterwards.
generateClick(flightData, gen, level, checked) ==
    LET r == generateWaypoints(gen, flightData, level)
    IN  [gen |-> IF checked THEN displayWaypoints(r.gen, "map") ELSE r.gen,
         statistics |-> updateWaypointStatistics(r.ret, level, r.gen),
         call |-> [flightData |-> flightData, level |-> level, ret |-> r.ret]]

\* classList.remove('d-none') / classList.add('d-none') on #loadingIndicator.
show(indicator) == TRUE
hide(indicator) == FALSE

\* "Reset waypoint elements": the switch, the statistics panel and the QR
\* container after a log has been displayed.
resetSwitch_Kept(checked) == checked
resetSwitch(checked) == FALSE

resetStatistics(statistics) == [kind |-> "placeholder"]

resetQrCodeContainer(container) == [kind |-> "empty"]

\* processIgcContent(igcContent), try block run to its end.
processIgcContent(igcContent) ==
    LET flightData == parse(igcContent)
    IN  /\ currentFlightData' = flightData
        /\ flightDisplay' = displayFlight(flightDisplay, flightData)
        /\ altitudeChart' = render(altitudeChart, flightData)
        /\ showWaypointsSwitch' = resetSwitch(showWaypointsSwitch)
        /\ waypointStatistics' = resetStatistics(waypointStatistics)
        /\ qrCodeContainer' = resetQrCodeContainer(qrCodeContainer)
        /\ lastLoadedIgcContent' = igcContent
        /\ loadingIndicator' = hide(loadingIndicator)
        /\ UNCHANGED <<waypointGenerator, optimizationLevel, formatGPX, lastCall, probe>>

\* processIgcContent when IGCParser.parse throws: the catch block alerts
\* and hides the indicator.
processIgcContentCatch ==
    /\ loadingIndicator' = hide(loadingIndicator)
    /\ UNCHANGED <<currentFlightData, waypointGenerator, optimizationLevel,
                   showWaypointsSwitch, formatGPX, waypointStatistics,
                   qrCodeContainer, lastCall, probe, flightDisplay,
                   altitudeChart, lastLoadedIgcContent>>

\* A file or URL has been read and processIgcContent displays it.
ProcessIgcContent(igcContent) ==
    /\ processIgcContent(igcContent)
    /\ UNCHANGED <<loads, timerVars>>

\* A file or URL has been read and processIgcContent fails on it.
ProcessIgcContentThrows ==
    /\ processIgcContentCatch
    /\ UNCHANGED <<loads, timerVars>>

\* The debounced resize callback (main.js 227-243), once the timer runs it.
resizeHandler ==
    /\ IF lastLoadedIgcContent # ""
       THEN /\ altitudeChart' = render(altitudeChart, parse(lastLoadedIgcContent))
            /\ waypointGenerator' =
                   IF showWaypointsSwitch /\ Len(waypointGenerator.waypoints) > 0
                   THEN displayWaypoints(waypointGenerator, "map")
                   ELSE waypointGenerator
       ELSE UNCHANGED <<altitudeChart, waypointGenerator>>
    /\ UNCHANGED <<currentFlightData, optimizationLevel, showWaypointsSwitch,
                   formatGPX, waypointStatistics, qrCodeContainer, lastCall,
                   probe, flightDisplay, lastLoadedIgcContent, loadingIndicator>>

\* The window has been resized and the debounced callback runs.
ResizeHandlerRun ==
    /\ resizeHandler
    /\ UNCHANGED <<loads, timerVars>>

\* Click on "generate waypoints"; without a flight the handler only alerts.
GenerateWaypointsBtnClick ==
    /\ currentFlightData # NoFlight
    /\ LET after == generateClick(currentFlightData, waypointGenerator,
                                  optimizationLevel, showWaypointsSwitch)
       IN  /\ waypointGenerator' = after.gen
           /\ waypointStatistics' = after.statistics
           /\ lastCall' = after.call
    /\ UNCHANGED <<currentFlightData, optimizationLevel, showWaypointsSwitch,
                   formatGPX, qrCodeContainer, probe,
                   displayVars, loads, timerVars>>

\* The user toggles the show-waypoints switch; the change handler runs.
ShowWaypointsSwitchChange ==
    LET checked == ~showWaypointsSwitch
    IN  /\ showWaypointsSwitch' = checked
        /\ IF currentFlightData = NoFlight
           THEN UNCHANGED <<waypointGenerator, waypointStatistics, lastCall>>
           ELSE IF checked
           THEN IF Len(waypointGenerator.waypoints) = 0
                THEN LET after == generateClick(currentFlightData, waypointGenerator,
                                                optimizationLevel, checked)
                     IN  /\ waypointGenerator' = after.gen
                         /\ waypointStatistics' = after.statistics
                         /\ lastCall' = after.call
                ELSE /\ waypointGenerator' = displayWaypoints(waypointGenerator, "map")
                     /\ UNCHANGED <<waypointStatistics, lastCall>>
           ELSE /\ waypointGenerator' = clearWaypoints(waypointGenerator)
                /\ UNCHANGED <<waypointStatistics, lastCall>>
        /\ UNCHANGED <<currentFlightData, optimizationLevel, formatGPX,
                       qrCodeContainer, probe,
                       displayVars, loads, timerVars>>

\* The user picks another optimization level; the change handler runs.
OptimizationLevelChange(level) ==
    /\ level # optimizationLevel
    /\ optimizationLevel' = level
    /\ IF Len(waypointGenerator.waypoints) > 0 /\ showWaypointsSwitch
          /\ currentFlightData # NoFlight
       THEN LET after == generateClick(currentFlightData, waypointGenerator,
                                       level, showWaypointsSwitch)
            IN  /\ waypointGenerator' = after.gen
                /\ waypointStatistics' = after.statistics
                /\ lastCall' = after.call
       ELSE UNCHANGED <<waypointGenerator, waypointStatistics, lastCall>>
    /\ UNCHANGED <<currentFlightData, showWaypointsSwitch, formatGPX,
                   qrCodeContainer, probe,
                   displayVars, loads, timerVars>>

\* The user picks the other export format.
FormatChange ==
    /\ formatGPX' = ~formatGPX
    /\ UNCHANGED <<currentFlightData, waypointGenerator, optimizationLevel,
                   showWaypointsSwitch, waypointStatistics, qrCodeContainer,
                   lastCall, probe,
                   displayVars, loads, timerVars>>

\* Click on "generate QR code"; without waypoints the handler only alerts.
GenerateQRBtnClick ==
    /\ Len(waypointGenerator.waypoints) # 0
    /\ qrCodeContainer' =
           generateQRCode(waypointGenerator, IF formatGPX THEN "gpx" ELSE "csv")
    /\ UNCHANGED <<currentFlightData, waypointGenerator, optimizationLevel,
                   showWaypointsSwitch, formatGPX, waypointStatistics,
                   lastCall, probe,
                   displayVars, loads, timerVars>>

-----------------------------------------------------------------------------
(* State after the page script has run (DOMContentLoaded) *)

NoCall == [none |-> TRUE]
NoProbe == [none |-> TRUE]

InitPage ==
    /\ optimizationLevel \in Levels
    /\ showWaypointsSwitch = FALSE
    /\ formatGPX \in BOOLEAN
    /\ waypointStatistics = [kind |-> "initial"]
    /\ qrCodeContainer = [kind |-> "empty"]
    /\ lastCall = NoCall
    /\ probe = NoProbe
    /\ flightDisplay = NewFlightDisplay
    /\ altitudeChart = NoLayer
    /\ lastLoadedIgcContent = ""
    /\ loadingIndicator = FALSE
    /\ loads = <<>>
    /\ clock = 0
    /\ timers = {}
    /\ timeout = 0
    /\ resizeEvents = <<>>
    /\ resizeRuns = <<>>

Init ==
    /\ InitPage
    /\ waypointGenerator = NewWaypointGenerator
    /\ currentFlightData = NoFlight

Next ==
    \/ \E igcContent \in IgcContents : ProcessIgcContent(igcContent)
    \/ ProcessIgcContentThrows
    \/ ResizeHandlerRun
    \/ GenerateWaypointsBtnClick
    \/ ShowWaypointsSwitchChange
    \/ \E level \in Levels : OptimizationLevelChange(level)
    \/ FormatChange
    \/ GenerateQRBtnClick

Spec == Init /\ [][Next]_vars

-----------------------------------------------------------------------------
(* SpecGen: generateWaypoints called on a generator, for every flight of    *)
(* AllFlights and every level.                                              *)

InitGen ==
    /\ InitPage
    /\ waypointGenerator = NewWaypointGenerator
    /\ optimizationLevel = "medium"
    /\ formatGPX = FALSE
    /\ currentFlightData \in AllFlights

\* One call per behaviour: on a new generator the result is a function of
\* the flight and the level alone.
CallGenerateWaypoints(level) ==
    LET r == generateWaypoints(waypointGenerator, currentFlightData, level)
    IN  /\ lastCall = NoCall
        /\ waypointGenerator' = r.gen
        /\ lastCall' = [flightData |-> currentFlightData, level |-> level, ret |-> r.ret]
        /\ UNCHANGED <<currentFlightData, optimizationLevel, showWaypointsSwitch,
                       formatGPX, waypointStatistics, qrCodeContainer, probe,
                       displayVars, loads, timerVars>>

NextGen == \E level \in Levels : CallGenerateWaypoints(level)

SpecGen == InitGen /\ [][NextGen]_vars

-----------------------------------------------------------------------------
(* SpecBudget: getTargetWaypointCount called directly, on distances around  *)
(* every multiple of 5 km up to MaxBudgetSteps * 5 km.                      *)

MaxBudgetSteps == 70

BudgetDistances ==
    {d \in {k * 5000 + e : k \in 0..MaxBudgetSteps, e \in {-1, 0, 1}} : d >= 0}

InitBudget ==
    /\ InitPage
    /\ optimizationLevel = "medium"
    /\ formatGPX = FALSE
    /\ waypointGenerator = NewWaypointGenerator
    /\ currentFlightData = NoFlight

CallGetTargetWaypointCount(distance, level) ==
    /\ probe' = [distance |-> distance, level |-> level,
                 count |-> getTargetWaypointCount(distance, level)]
    /\ UNCHANGED <<currentFlightData, waypointGenerator, optimizationLevel,
                   showWaypointsSwitch, formatGPX, waypointStatistics,
                   qrCodeContainer, lastCall,
                   displayVars, loads, timerVars>>

NextBudget ==
    \E distance \in BudgetDistances, level \in Levels :
        CallGetTargetWaypointCount(distance, level)

SpecBudget == InitBudget /\ [][NextBudget]_vars

-----------------------------------------------------------------------------
(* SpecExport: the QR export of a constructed waypoint list of up to        *)
(* MaxExportWaypoints waypoints.                                            *)

MaxExportWaypoints == 70

\* A list shaped like a generated one: TAKEOFF, TURN1, TURN2, ..., LANDING,
\* alternating between two samples.
ConstructedWaypoints(n, s1, s2) ==
    [i \in 1..n |->
        Waypoint(IF i = 1 THEN "TAKEOFF"
                 ELSE IF i = n THEN "LANDING"
                 ELSE "TURN" \o ToString(i - 1),
                 Fix(IF i % 2 = 1 THEN s1 ELSE s2, i))]

\* A place south of the equator and east of 100 degrees: a negative
\* latitude and a three-digit longitude in the export texts.
PosS == <<-33456789, 151234567>>
\* The south pole on the date line: the longest coordinates there are.
PosW == <<-90000000, -180000000>>
ExportSamples == Samples \cup {<<PosS, 1000>>, <<PosW, 1000>>}

InitExport ==
    /\ InitPage
    /\ optimizationLevel = "medium"
    /\ currentFlightData = NoFlight
    /\ \E n \in 0..MaxExportWaypoints, s2 \in ExportSamples, level \in Levels :
          waypointGenerator =
              [NewWaypointGenerator EXCEPT
                  !.waypoints = ConstructedWaypoints(n, <<PosA, 1000>>, s2),
                  !.currentOptimizationLevel = level]

NextExport == GenerateQRBtnClick

SpecExport == InitExport /\ [][NextExport]_vars

-----------------------------------------------------------------------------
(* SpecGeo: calculateCourseChange called directly on three places of        *)
(* GeoPositions.                                                            *)

InitGeo ==
    /\ InitPage
    /\ optimizationLevel = "medium"
    /\ formatGPX = FALSE
    /\ waypointGenerator = NewWaypointGenerator
    /\ currentFlightData = NoFlight

CallCalculateCourseChange(p1, p2, p3) ==
    /\ probe' = [p1 |-> p1, p2 |-> p2, p3 |-> p3,
                 bearing1 |-> calculateBearing(p1[1], p1[2], p2[1], p2[2]),
                 bearing2 |-> calculateBearing(p2[1], p2[2], p3[1], p3[2]),
                 courseChange |-> calculateCourseChange(p1[1], p1[2], p2[1], p2[2],
                                                        p3[1], p3[2])]
    /\ UNCHANGED <<currentFlightData, waypointGenerator, optimizationLevel,
                   showWaypointsSwitch, formatGPX, waypointStatistics,
                   qrCodeContainer, lastCall,
                   displayVars, loads, timerVars>>

NextGeo ==
    \E p1 \in GeoPositions, p2 \in GeoPositions, p3 \in GeoPositions :
        CallCalculateCourseChange(p1, p2, p3)

SpecGeo == InitGeo /\ [][NextGeo]_vars

-----------------------------------------------------------------------------
(* SpecSample: step 1 of generateWaypoints (the sampling of the fixes) on   *)
(* logs of up to MaxSampleFixes records.                                    *)

MaxSampleFixes == 620

\* A log of n records.
LongFlight(n) == FlightOf([i \in 1..n |-> <<PosA, 1000>>])

InitSample ==
    /\ InitPage
    /\ optimizationLevel = "medium"
    /\ formatGPX = FALSE
    /\ waypointGenerator = NewWaypointGenerator
    /\ \E n \in 1..MaxSampleFixes : currentFlightData = LongFlight(n)

SampleFixes ==
    /\ probe = NoProbe
    /\ probe' = [fixCount |-> Len(currentFlightData.fixes),
                 sampleRate |-> sampleRate(currentFlightData.fixes),
                 sampled |-> sampledFixes(currentFlightData.fixes)]
    /\ UNCHANGED <<currentFlightData, waypointGenerator, optimizationLevel,
                   showWaypointsSwitch, formatGPX, waypointStatistics,
                   qrCodeContainer, lastCall,
                   displayVars, loads, timerVars>>

NextSample == SampleFixes

SpecSample == InitSample /\ [][NextSample]_vars

-----------------------------------------------------------------------------
(* Vocabulary of the claims about the latest generateWaypoints call *)

Called == lastCall # NoCall
CalledWithFixes ==
    /\ Called
    /\ lastCall.flightData # NoFlight
    /\ Len(lastCall.flightData.fixes) >= 1
CallFixes == lastCall.flightData.fixes
CallRet == lastCall.ret

IsTurnName(name) == Len(name) > 4 /\ SubSeq(name, 1, 4) = "TURN"
IsWpName(name) == Len(name) > 2 /\ SubSeq(name, 1, 2) = "WP"

\* The fix a waypoint was copied from: fix times are distinct within a flight.
OriginIndex(fixes, waypoint) ==
    CHOOSE i \in 1..Len(fixes) : fixes[i].time = waypoint.time

CopiedFrom(waypoint, fix) ==
    /\ waypoint.lat = fix.latitude
    /\ waypoint.lng = fix.longitude
    /\ waypoint.altitude = fix.pressureAltitude
    /\ waypoint.time = fix.time

\* Course change and altitude changes at the i-th sampled point.
CourseChangeAt(fixes, sampled, i) ==
    calculateCourseChange(
        fixes[sampled[i-1]].latitude, fixes[sampled[i-1]].longitude,
        fixes[sampled[i]].latitude, fixes[sampled[i]].longitude,
        fixes[sampled[i+1]].latitude, fixes[sampled[i+1]].longitude)
AltChangePrevAt(fixes, sampled, i) ==
    Abs(fixes[sampled[i]].pressureAltitude - fixes[sampled[i-1]].pressureAltitude)
AltChangeNextAt(fixes, sampled, i) ==
    Abs(fixes[sampled[i+1]].pressureAltitude - fixes[sampled[i]].pressureAltitude)

-----------------------------------------------------------------------------
(* C1 *)

-----------------------------------------------------------------------------
(* C2 *)

-----------------------------------------------------------------------------
(* C5 *)

NoQualifyingFeature(fixes, level) ==
    LET sampled == sampledFixes(fixes)
    IN  \A i \in 2..(Len(sampled) - 1) :
           /\ ~(CourseChangeAt(fixes, sampled, i) > turnThreshold(level))
           /\ ~(AltChangePrevAt(fixes, sampled, i) > 100
                /\ AltChangeNextAt(fixes, sampled, i) > 100)

-----------------------------------------------------------------------------
(* C6 *)

\* Neighbours that are the turn and the altitude waypoint of one fix.
TurnAndAltitudeOfOneFix(w1, w2) ==
    /\ w1.time = w2.time
    /\ \/ (IsTurnName(w1.name) /\ IsWpName(w2.name))
       \/ (IsWpName(w1.name) /\ IsTurnName(w2.name))

\* The candidates in the order the importance ranking leaves them (steps 3, 4).
CallRanked ==
    slice(SortByImportance(possibleWaypoints(CallFixes, lastCall.level)),
          getTargetWaypointCount(calculateTotalDistance(CallFixes), lastCall.level))

-----------------------------------------------------------------------------
(* C7 *)

CallCandidates == possibleWaypoints(CallFixes, lastCall.level)
CallTargetCount == getTargetWaypointCount(calculateTotalDistance(CallFixes), lastCall.level)

\* The candidate has a waypoint of its kind and fix among the interior waypoints.
InOutput(candidate) ==
    \E i \in 2..(Len(CallRet) - 1) :
        /\ CallRet[i].time = CallFixes[candidate.fix].time
        /\ IF candidate.type = "turn"
           THEN IsTurnName(CallRet[i].name)
           ELSE IsWpName(CallRet[i].name)

-----------------------------------------------------------------------------
(* C3 *)

\* C3: in every reachable state the waypoints held by the generator (the
\* ones the QR export emits) were generated from the currently loaded
\* flight, never from a previously loaded one.
C3_HeldWaypointsOfCurrentFlight ==
    Len(waypointGenerator.waypoints) > 0 =>
        /\ currentFlightData # NoFlight
        /\ Len(currentFlightData.fixes) > 0
        /\ \E level \in Levels :
              waypointGenerator.waypoints = builtWaypoints(currentFlightData.fixes, level)

-----------------------------------------------------------------------------
(* C4 *)

\* C4: after every generateWaypoints call the generator holds exactly the
\* list the call returned; after a call on a flight without fixes, which
\* returns the empty list, it holds no waypoints.
C4_HeldEqualsReturned ==
    Called => waypointGenerator.waypoints = lastCall.ret

-----------------------------------------------------------------------------
(* C8 *)

CeilDiv(a, b) == (a + b - 1) \div b

\* The budget function as specified, for a distance in metres.
SpecifiedBase(d, level) ==
    CASE level = "low"    -> Min(12, CeilDiv(d, 15000))
      [] level = "medium" -> Min(8, CeilDiv(d, 25000))
      [] level = "high"   -> Min(5, CeilDiv(d, 40000))

SpecifiedBudget(d, level) ==
    LET b == SpecifiedBase(d, level)
        adjusted == CASE d <= 20000 -> Max(2, b)
                      [] d > 20000 /\ d <= 100000 -> Max(3, Min(13, b + 1))
                      [] d > 100000 /\ d <= 300000 -> Max(4, Min(13, b + 2))
                      [] d > 300000 -> Max(5, Min(13, b + 3))
    IN  Min(13, adjusted)

\* C8: for every distance >= 0 and level, getTargetWaypointCount returns
\* the value of the specified budget function.
C8_BudgetAsSpecified ==
    probe # NoProbe => probe.count = SpecifiedBudget(probe.distance, probe.level)

\* A call exactly on the 100 km bracket bound, where the base is below its cap.
C8_Witness ==
    /\ probe # NoProbe
    /\ probe.distance = 100000
    /\ probe.level = "low"
    /\ probe.count = 8

-----------------------------------------------------------------------------
(* C9 *)

\* C9: for a fixed level the budget is non-decreasing in the distance,
\* across the bracket bounds too, and never exceeds 13.
C9_BudgetMonotone ==
    probe # NoProbe =>
        /\ probe.count <= 13
        /\ \A d1 \in BudgetDistances :
              d1 <= probe.distance
                  => getTargetWaypointCount(d1, probe.level) <= probe.count

\* A call just past the 20 km bound whose budget is above the one at 20 km.
C9_Witness ==
    /\ probe # NoProbe
    /\ probe.distance = 20001
    /\ probe.count > getTargetWaypointCount(20000, probe.level)

-----------------------------------------------------------------------------
(* C10 *)

ExportFormat == IF formatGPX THEN "gpx" ELSE "csv"
ExportPrimary ==
    IF formatGPX THEN generateGPX(waypointGenerator) ELSE generateCSV(waypointGenerator)
ExportCompact == generateCompactCSV(waypointGenerator)

-----------------------------------------------------------------------------
(* C11 *)

\* The candidates kept by the ranking, in path order (steps 3 to 5).
CallSelected == selectedWaypoints(CallFixes, lastCall.level, CallTargetCount)

-----------------------------------------------------------------------------
(* C12 *)

\* The interior fixes where the course turns by more than 60 degrees.
SharpTurns(fixes) ==
    {i \in 2..(Len(fixes) - 1) :
        CourseChangeAt(fixes, [k \in 1..Len(fixes) |-> k], i) > 6000}

\* The flight climbs more than 100 m into fix i and is level everywhere else.
ClimbThenLevelAt(fixes, i) ==
    /\ fixes[i].pressureAltitude - fixes[i - 1].pressureAltitude > 100
    /\ \A j \in 1..(i - 1) : fixes[j].pressureAltitude = fixes[i - 1].pressureAltitude
    /\ \A j \in i..Len(fixes) : fixes[j].pressureAltitude = fixes[i].pressureAltitude

\* A call at level medium, with a budget of at least 3, on a flight that
\* moves at every step, has exactly two turns sharper than 60 degrees (and
\* no other turn above the level's threshold) and, away from the turns, one
\* climb of more than 100 m that then levels off.
TwoTurnsAndAClimb ==
    /\ CalledWithFixes
    /\ lastCall.level = "medium"
    /\ CallTargetCount >= 3
    /\ Len(CallFixes) >= 4
    /\ Len(CallFixes) < 200
    /\ \A i \in 2..Len(CallFixes) :
          <<CallFixes[i].latitude, CallFixes[i].longitude>>
              # <<CallFixes[i-1].latitude, CallFixes[i-1].longitude>>
    /\ Cardinality(SharpTurns(CallFixes)) = 2
    /\ \A i \in 2..(Len(CallFixes) - 1) :
          i \notin SharpTurns(CallFixes)
              => CourseChangeAt(CallFixes, [k \in 1..Len(CallFixes) |-> k], i) <= 4500
    /\ \E i \in 2..(Len(CallFixes) - 1) :
          i \notin SharpTurns(CallFixes) /\ ClimbThenLevelAt(CallFixes, i)

\* C12: such a flight yields TAKEOFF, exactly one TURN* or WP* waypoint for
\* each of the three features (one per sharp turn, one for the climb), and
\* LANDING.
C12_OneWaypointPerFeature ==
    TwoTurnsAndAClimb =>
        LET n == Len(CallRet)
        IN  /\ n = 5
            /\ CallRet[1].name = "TAKEOFF"
            /\ CallRet[n].name = "LANDING"
            /\ \A t \in SharpTurns(CallFixes) :
                  Cardinality({p \in 2..(n - 1) :
                      /\ IsTurnName(CallRet[p].name)
                      /\ CallRet[p].time = CallFixes[t].time}) = 1
            /\ Cardinality({p \in 2..(n - 1) : IsWpName(CallRet[p].name)}) = 1

-----------------------------------------------------------------------------
(* C13 *)

CallSampled == sampledFixes(CallFixes)

\* Distance from the (i-1)-th to the i-th sampled point, in metres.
DistToPrevAt(fixes, sampled, i) ==
    calculateHaversineDistance(
        fixes[sampled[i-1]].latitude, fixes[sampled[i-1]].longitude,
        fixes[sampled[i]].latitude, fixes[sampled[i]].longitude)

\* The i-th sampled point is not skipped and satisfies both rules.
TurnAndAltitudeAt(i) ==
    /\ DistToPrevAt(CallFixes, CallSampled, i) >= 100
    /\ CourseChangeAt(CallFixes, CallSampled, i) > turnThreshold(lastCall.level)
    /\ AltChangePrevAt(CallFixes, CallSampled, i) > 100
    /\ AltChangeNextAt(CallFixes, CallSampled, i) > 100

\* The candidates of a fix and of a kind, as positions in the candidate pool.
CandidatesOf(fix, type) ==
    {k \in 1..Len(CallCandidates) :
        CallCandidates[k].fix = fix /\ CallCandidates[k].type = type}

\* The candidate ranks within the budget whatever the order among equals.
RanksWithinBudget(k) ==
    Cardinality({j \in 1..Len(CallCandidates) :
        CallCandidates[j].importance >= CallCandidates[k].importance})
            <= CallTargetCount

\* The interior waypoints of a kind copied from a fix, as positions in the result.
WaypointsOf(fix, type) ==
    {p \in 2..(Len(CallRet) - 1) :
        /\ CallRet[p].time = CallFixes[fix].time
        /\ IF type = "turn" THEN IsTurnName(CallRet[p].name)
                             ELSE IsWpName(CallRet[p].name)}

-----------------------------------------------------------------------------
(* C14 *)

\* The text occurs in the data.
Contains(data, text) ==
    \E k \in 1..(Len(data) - Len(text) + 1) :
        SubSeq(data, k, k + Len(text) - 1) = text

\* The GPX text names the level in its metadata name and in its track name,
\* and names no other level there.
GpxNamesLevel(data, level) ==
    /\ Contains(data, "<name>Optimized Flight Waypoints (" \o level \o ")</name>")
    /\ Contains(data, "<name>Optimized Flight Path (" \o level \o ")</name>")
    /\ \A other \in Levels \ {level} :
          /\ ~Contains(data, "<name>Optimized Flight Waypoints (" \o other \o ")</name>")
          /\ ~Contains(data, "<name>Optimized Flight Path (" \o other \o ")</name>")

-----------------------------------------------------------------------------
(* C15 *)

\* Position of the first occurrence of a character at or after k; 0 if none.
RECURSIVE FirstIndex(_, _, _)
FirstIndex(text, char, k) ==
    IF k > Len(text) THEN 0
    ELSE IF SubSeq(text, k, k) = char THEN k
    ELSE FirstIndex(text, char, k + 1)

\* The pieces of the text between separators.
RECURSIVE Split(_, _)
Split(text, separator) ==
    LET k == FirstIndex(text, separator, 1)
    IN  IF k = 0 THEN <<text>>
        ELSE <<SubSeq(text, 1, k - 1)>>
                 \o Split(SubSeq(text, k + 1, Len(text)), separator)

\* The lines of a text: each line ends with a newline, and a text that does
\* not end with one has a last, unterminated line.
Lines(text) ==
    LET pieces == Split(text, "\n")
    IN  IF pieces[Len(pieces)] = "" THEN SubSeq(pieces, 1, Len(pieces) - 1)
        ELSE pieces

Digit(char) == CHOOSE d \in 0..9 : ToString(d) = char

RECURSIVE ParseNat(_)
ParseNat(digits) ==
    IF Len(digits) = 0 THEN 0
    ELSE 10 * ParseNat(SubSeq(digits, 1, Len(digits) - 1))
         + Digit(SubSeq(digits, Len(digits), Len(digits)))

\* A decimal number with 6 decimals read back, in microdegrees.
ParseDecimal6(text) ==
    LET negative == Len(text) > 0 /\ SubSeq(text, 1, 1) = "-"
        body == IF negative THEN SubSeq(text, 2, Len(text)) ELSE text
        parts == Split(body, ".")
        value == ParseNat(parts[1]) * 1000000 + ParseNat(parts[2])
    IN  IF negative THEN 0 - value ELSE value

\* A CSV row read back as a waypoint's name, place and altitude.
ParseCsvRow(row) ==
    LET fields == Split(row, ",")
    IN  [name |-> fields[1],
         lat |-> ParseDecimal6(fields[2]),
         lng |-> ParseDecimal6(fields[3]),
         altitude |-> ParseNat(fields[4])]

\* The export made was the CSV text of the held waypoints.
CsvExported ==
    /\ qrCodeContainer.kind = "canvas"
    /\ ~formatGPX
    /\ Len(ExportPrimary) <= 1500

-----------------------------------------------------------------------------
(* C16 *)

-----------------------------------------------------------------------------
(* C17 *)

-----------------------------------------------------------------------------
(* C18 *)

\* C18: for every fix count the sampled list the candidate scan runs over
\* holds at most 200 points.
C18_AtMost200Sampled ==
    probe # NoProbe => Len(probe.sampled) <= 200

-----------------------------------------------------------------------------
(* C19 *)

\* The angle thresholds as specified, in centidegrees.
SpecifiedTurnThreshold(level) ==
    CASE level = "low" -> 3000
      [] level = "medium" -> 4500
      [] level = "high" -> 6000

-----------------------------------------------------------------------------
(* C20 *)

-----------------------------------------------------------------------------
(* C27 *)

\* C27: getTargetWaypointCount returns a value between 2 and 13 inclusive
\* for every distance >= 0 and every level, so the interior budget is never
\* <= 0 and the branch of generateWaypoints that emits only TAKEOFF and
\* LANDING for such a budget is never taken.
C27_BudgetBetween2And13 ==
    probe # NoProbe =>
        /\ probe.count >= 2
        /\ probe.count <= 13
        /\ ~(probe.count <= 0)

\* A call for a flight of no length, where the base count is 0 and the
\* floor of the shortest bracket gives 2.
C27_Witness ==
    /\ probe # NoProbe
    /\ probe.distance = 0
    /\ baseCount(probe.distance, probe.level) = 0
    /\ probe.count = 2

-----------------------------------------------------------------------------
(* C28 *)

\* A list as generateWaypoints produces them: at most 15 waypoints, names of
\* at most 7 characters, latitudes in [-90, 90], longitudes in [-180, 180].
GeneratedShape(waypoints) ==
    /\ Len(waypoints) >= 1
    /\ Len(waypoints) <= 15
    /\ \A i \in 1..Len(waypoints) :
          /\ Len(waypoints[i].name) <= 7
          /\ waypoints[i].lat >= -90000000 /\ waypoints[i].lat <= 90000000
          /\ waypoints[i].lng >= -180000000 /\ waypoints[i].lng <= 180000000

-----------------------------------------------------------------------------
(* C29 *)

\* A decimal number with 5 decimals read back, in units of 0.00001 degree.
ParseDecimal5(text) ==
    LET negative == Len(text) > 0 /\ SubSeq(text, 1, 1) = "-"
        body == IF negative THEN SubSeq(text, 2, Len(text)) ELSE text
        parts == Split(body, ".")
        value == ParseNat(parts[1]) * 100000 + ParseNat(parts[2])
    IN  IF negative THEN 0 - value ELSE value

\* A coordinate in microdegrees rounded to 5 decimals, half away from zero.
RoundedTo5(microdeg) ==
    IF microdeg < 0 THEN 0 - ((0 - microdeg + 5) \div 10) ELSE (microdeg + 5) \div 10

\* The export made fell back to the compact CSV.
CompactExported ==
    /\ qrCodeContainer.kind = "canvas"
    /\ Len(ExportPrimary) > 1500

-----------------------------------------------------------------------------
(* C30 *)

\* The i-th and the (i+1)-th sampled point are at the same place.
NextAtSamePlace(fixes, sampled, i) ==
    /\ fixes[sampled[i]].latitude = fixes[sampled[i+1]].latitude
    /\ fixes[sampled[i]].longitude = fixes[sampled[i+1]].longitude

\* C30: a sampled interior point whose next sampled point has identical
\* coordinates is never made a turn candidate, whatever the heading from
\* the previous sampled point to it.
C30_NoTurnBeforeStandstill ==
    CalledWithFixes =>
        \A i \in 2..(Len(CallSampled) - 1) :
            NextAtSamePlace(CallFixes, CallSampled, i)
                => CandidatesOf(CallSampled[i], "turn") = {}

-----------------------------------------------------------------------------
(* SpecLoad: the file input and the URL loader.  A load attempt is started *)
(* by a handler and settled later by a callback of the FileReader or of    *)
(* the fetch promise chain; attempts settle in any order.  Each record of  *)
(* loads keeps the content the file or URL holds, whether the attempt is   *)
(* pending, processed or failed, and which attempts were pending when it   *)
(* was requested.                                                          *)

\* Most load attempts in one behaviour.
MaxLoads == 2

\* The logs behind the files and URLs that are loaded.
LoadContents == {"dogleg.igc", "triangle.igc"}

PendingLoads == {k \in 1..Len(loads) : loads[k].status = "pending"}

\* reader.readAsText(file) / fetch(url): one more pending attempt.
startLoad(kind, content) ==
    Append(loads, [kind |-> kind, content |-> content, status |-> "pending",
                   during |-> PendingLoads])

settleLoad(k, status) == [loads EXCEPT ![k].status = status]

\* reader.onerror and the fetch chain's catch: alert, hide the indicator.
readerOnError_IndicatorLeft(indicator) == indicator
readerOnError(indicator) == hide(indicator)

fetchCatch(indicator) == hide(indicator)

\* Everything on the page but the loading indicator and the loads.
exceptIndicator ==
    <<currentFlightData, waypointGenerator, optimizationLevel,
      showWaypointsSwitch, formatGPX, waypointStatistics, qrCodeContainer,
      lastCall, probe, flightDisplay, altitudeChart, lastLoadedIgcContent>>

\* change event of the file input; file = "" when no file was chosen.
FileInputChange(file) ==
    /\ IF file = ""
       THEN UNCHANGED <<loadingIndicator, loads>>
       ELSE /\ Len(loads) < MaxLoads
            /\ loadingIndicator' = show(loadingIndicator)
            /\ loads' = startLoad("file", file)
    /\ UNCHANGED <<exceptIndicator, timerVars>>

\* reader.onload: the text is handed to processIgcContent.
ReaderOnLoad(k, throws) ==
    /\ k \in PendingLoads
    /\ loads[k].kind = "file"
    /\ IF throws THEN processIgcContentCatch ELSE processIgcContent(loads[k].content)
    /\ loads' = settleLoad(k, IF throws THEN "failed" ELSE "processed")
    /\ UNCHANGED timerVars

\* reader.onerror.
ReaderOnError(k) ==
    /\ k \in PendingLoads
    /\ loads[k].kind = "file"
    /\ loadingIndicator' = readerOnError(loadingIndicator)
    /\ loads' = settleLoad(k, "failed")
    /\ UNCHANGED <<exceptIndicator, timerVars>>

\* click on the load button; url is the trimmed text of the URL input.
LoadIgcButtonClick(url) ==
    /\ IF url = ""
       THEN UNCHANGED <<loadingIndicator, loads>>
       ELSE /\ Len(loads) < MaxLoads
            /\ loadingIndicator' = show(loadingIndicator)
            /\ loads' = startLoad("url", url)
    /\ UNCHANGED <<exceptIndicator, timerVars>>

\* The fetch promise resolves with a response: an error status is thrown
\* to the catch, otherwise the body text is handed to processIgcContent.
FetchResponse(k, ok, throws) ==
    /\ k \in PendingLoads
    /\ loads[k].kind = "url"
    /\ IF ok
       THEN /\ IF throws THEN processIgcContentCatch
                         ELSE processIgcContent(loads[k].content)
            /\ loads' = settleLoad(k, IF throws THEN "failed" ELSE "processed")
       ELSE /\ loadingIndicator' = fetchCatch(loadingIndicator)
            /\ loads' = settleLoad(k, "failed")
            /\ UNCHANGED exceptIndicator
    /\ UNCHANGED timerVars

\* The fetch promise rejects (network failure).
FetchRejects(k) ==
    /\ k \in PendingLoads
    /\ loads[k].kind = "url"
    /\ loadingIndicator' = fetchCatch(loadingIndicator)
    /\ loads' = settleLoad(k, "failed")
    /\ UNCHANGED <<exceptIndicator, timerVars>>

\* The browser settles attempt k, in one of the ways above.
Settle(k) ==
    \/ \E throws \in BOOLEAN : ReaderOnLoad(k, throws)
    \/ ReaderOnError(k)
    \/ \E ok, throws \in BOOLEAN : FetchResponse(k, ok, throws)
    \/ FetchRejects(k)

NextLoad ==
    \/ \E file \in LoadContents \cup {""} : FileInputChange(file)
    \/ \E url \in LoadContents \cup {""} : LoadIgcButtonClick(url)
    \/ \E k \in 1..MaxLoads, throws \in BOOLEAN : ReaderOnLoad(k, throws)
    \/ \E k \in 1..MaxLoads : ReaderOnError(k)
    \/ \E k \in 1..MaxLoads, ok \in BOOLEAN, throws \in BOOLEAN :
           FetchResponse(k, ok, throws)
    \/ \E k \in 1..MaxLoads : FetchRejects(k)

\* A FileReader fires load or error, and a fetch promise settles: every
\* pending attempt is settled at some time.
SpecLoad ==
    Init /\ [][NextLoad]_vars /\ \A k \in 1..MaxLoads : WF_vars(Settle(k))

-----------------------------------------------------------------------------
(* SpecResize: resize events, the clock and the debounce timer.            *)

\* The wait given to debounce, in milliseconds.
DebounceWait == 250
\* Resize events arrive up to this time, and at most this many of them.
MaxClock == 400
MaxResizeEvents == 3

\* clearTimeout(handle) and setTimeout(callback, wait) on the timer set.
clearTimeout_Noop(pending, handle) == pending
clearTimeout(pending, handle) == {t \in pending : t.id # handle}

setTimeout(pending, id, wait) == pending \cup {[id |-> id, due |-> clock + wait]}

\* A resize event: the function returned by debounce runs.
ResizeEvent ==
    /\ Len(resizeEvents) < MaxResizeEvents
    /\ clock <= MaxClock
    /\ LET id == Len(resizeEvents) + 1
       IN  /\ timers' = setTimeout(clearTimeout(timers, timeout), id, DebounceWait)
           /\ timeout' = id
    /\ resizeEvents' = Append(resizeEvents, clock)
    /\ UNCHANGED <<currentFlightData, waypointGenerator, optimizationLevel,
                   showWaypointsSwitch, formatGPX, waypointStatistics,
                   qrCodeContainer, lastCall, probe, displayVars, loads,
                   clock, resizeRuns>>

\* Time passes.
Tick ==
    /\ clock < MaxClock \/ \E t \in timers : t.due > clock
    /\ clock' = clock + 50
    /\ UNCHANGED <<currentFlightData, waypointGenerator, optimizationLevel,
                   showWaypointsSwitch, formatGPX, waypointStatistics,
                   qrCodeContainer, lastCall, probe, displayVars, loads,
                   timers, timeout, resizeEvents, resizeRuns>>

\* A timer that is due runs its callback, the resize handler.
TimeoutFires(id) ==
    /\ \E t \in timers :
          /\ t.id = id
          /\ t.due <= clock
          /\ timers' = timers \ {t}
    /\ resizeRuns' = Append(resizeRuns, [at |-> clock, events |-> Len(resizeEvents)])
    /\ resizeHandler
    /\ UNCHANGED <<loads, clock, timeout, resizeEvents>>

NextResize ==
    \/ ResizeEvent
    \/ Tick
    \/ \E id \in 1..MaxResizeEvents : TimeoutFires(id)

\* Time goes on and the browser runs a timer that is due.
SpecResize ==
    /\ Init
    /\ [][NextResize]_vars
    /\ WF_vars(Tick)
    /\ WF_vars(\E id \in 1..MaxResizeEvents : TimeoutFires(id))

-----------------------------------------------------------------------------
(* C22: a displayed log resets the waypoint controls *)

\* The waypoint controls as processIgcContent leaves them.
WaypointUiReset ==
    /\ showWaypointsSwitch = FALSE
    /\ waypointStatistics = [kind |-> "placeholder"]
    /\ qrCodeContainer = [kind |-> "empty"]

\* The user works the waypoint controls: generate, show switch, QR code.
UserUsesWaypointUi ==
    \/ GenerateWaypointsBtnClick
    \/ ShowWaypointsSwitchChange
    \/ GenerateQRBtnClick

-----------------------------------------------------------------------------
(* C24: waypoint markers and the show-waypoints switch *)

\* C24: in every state of the page, reached by any sequence of loads,
\* generate clicks, switch toggles, level changes and resizes, an unchecked
\* show-waypoints switch means that no waypoint marker and no waypoint path
\* is on the map.
C24_UncheckedMeansNoMarkers ==
    ~showWaypointsSwitch => waypointGenerator.waypointMarkers = <<>>

-----------------------------------------------------------------------------
(* C25: the map and the info panel show the current flight *)

\* What the FlightDisplay shows when it shows exactly this flight: its
\* path and its takeoff and landing markers (none for a flight without
\* fixes), and no other flight's information.
Shows(display, flightData) ==
    /\ display.flightPath =
           IF Len(flightData.fixes) = 0 THEN NoLayer
           ELSE [polyline |-> coordinatesOf(flightData)]
    /\ display.markers =
           IF Len(flightData.fixes) = 0
           THEN [start |-> NoLayer, end |-> NoLayer]
           ELSE [start |-> [title |-> "Takeoff", at |-> coordinatesOf(flightData)[1]],
                 end |-> [title |-> "Landing",
                          at |-> coordinatesOf(flightData)[Len(flightData.fixes)]]]
    /\ display.info.kind = "table" => display.info.of = flightData
    /\ Len(flightData.fixes) > 0 => display.info.kind = "table"

\* C25: once a log has been processed without error, the flight path, the
\* takeoff and landing markers and the flight information on the page are
\* those of the current flight data, also when the log has no fixes and a
\* flight with fixes was displayed before.
C25_DisplayShowsCurrentFlight ==
    currentFlightData # NoFlight => Shows(flightDisplay, currentFlightData)

-----------------------------------------------------------------------------
(* C21: the loading indicator is hidden again after every load attempt *)

SettledLoads == {k \in 1..Len(loads) : loads[k].status # "pending"}

-----------------------------------------------------------------------------
(* C23: the resize handler is debounced *)

\* Runs of the handler, by their position in resizeRuns.
Runs == 1..Len(resizeRuns)

\* C23: a run of the resize handler comes 250 ms or more after the latest
\* resize event; no run comes between two events less than 250 ms apart;
\* no two runs follow the same event; at most one run is pending at any
\* time; and after the last event of a burst the handler does run.
C23_Debounced ==
    /\ [](/\ \A r \in Runs :
                /\ resizeRuns[r].events >= 1
                /\ resizeRuns[r].at - resizeEvents[resizeRuns[r].events] >= DebounceWait
          /\ \A i \in 1..(Len(resizeEvents) - 1) :
                resizeEvents[i + 1] - resizeEvents[i] < DebounceWait
                    => \A r \in Runs : resizeRuns[r].events # i
          /\ \A r1, r2 \in Runs :
                resizeRuns[r1].events = resizeRuns[r2].events => r1 = r2
          /\ Cardinality(timers) <= 1)
    /\ \A n \in 1..MaxResizeEvents :
            (Len(resizeEvents) = n)
                ~> (Len(resizeEvents) > n \/ \E r \in Runs : resizeRuns[r].events = n)

\* A burst of three events, each less than 250 ms after the one before,
\* has been answered by one run.
C23_Witness ==
    /\ Len(resizeEvents) = MaxResizeEvents
    /\ \A i \in 1..(Len(resizeEvents) - 1) :
            /\ resizeEvents[i + 1] > resizeEvents[i]
            /\ resizeEvents[i + 1] - resizeEvents[i] < DebounceWait
    /\ Len(resizeRuns) = 1
    /\ timers = {}

-----------------------------------------------------------------------------
(* C26: two URL loads that overlap *)

\* C26: when all load attempts are settled and the URL load requested last
\* was requested while an earlier URL load was pending, and both were
\* processed, then the current flight data is the flight of the load
\* requested last and, if it has fixes, the map and the panel show it.
C26_LastRequestedWins ==
    \A i, j \in 1..Len(loads) :
        (/\ PendingLoads = {}
         /\ j = Len(loads)
         /\ i \in loads[j].during
         /\ loads[i].kind = "url" /\ loads[j].kind = "url"
         /\ loads[i].status = "processed" /\ loads[j].status = "processed")
        => /\ currentFlightData = parse(loads[j].content)
           /\ Len(currentFlightData.fixes) > 0 => Shows(flightDisplay, currentFlightData)

====
